---- MODULE Spec2Model ----
(***************************************************************************)
(* Model of the avient.com safety-data-sheet scraper.                      *)
(*                                                                         *)
(* The repository holds four compilable copies of the program:             *)
(*   "main"  src/main.go                                                   *)
(*   "p000"  src/unnamed/part_000                                          *)
(*   "p2"    src/unnamed/part_001, second program (lines 249-676)          *)
(*   "p3"    src/unnamed/part_001, third program  (lines 678-982)          *)
(* (the first program of part_001, lines 1-247, has the download code of   *)
(* main.go).                                                               *)
(*                                                                         *)
(* A Go string is a sequence of one-character strings.                     *)
(***************************************************************************)
EXTENDS Integers, Sequences, FiniteSets, TLC

(***************************************************************************)
(* Characters                                                              *)
(***************************************************************************)
UpperLetters ==
  <<"A","B","C","D","E","F","G","H","I","J","K","L","M",
    "N","O","P","Q","R","S","T","U","V","W","X","Y","Z">>

LowerLetters ==
  <<"a","b","c","d","e","f","g","h","i","j","k","l","m",
    "n","o","p","q","r","s","t","u","v","w","x","y","z">>

DigitChars == <<"0","1","2","3","4","5","6","7","8","9">>

\* 0x60, which no string literal of the language can hold.
Grave == "\\g"

\* The printable ASCII characters, 0x20 to 0x7e, in code order.
Ascii ==
  <<" ","!","\"","#","$","%","&","'","(",")","*","+",",","-",".","/">>
  \o DigitChars
  \o <<":",";","<","=",">","?","@">>
  \o UpperLetters
  \o <<"[","\\","]","^","_",Grave>>
  \o LowerLetters
  \o <<"{","|","}","~">>

\* A byte below 0x20 other than TAB, or 0x7f; and a byte of 0x80 and above.
\* Bytes of one class are not told apart (multi-byte runes are not modelled).
CtlByte == "\\c"
HighByte == "\\h"
TAB == "\t"

Range(s) == { s[i] : i \in DOMAIN s }

IndexOf(c, s) == CHOOSE i \in DOMAIN s : s[i] = c

IsUpper(c) == c \in Range(UpperLetters)
IsLower(c) == c \in Range(LowerLetters)
IsDigit(c) == c \in Range(DigitChars)
IsAlnum(c) == IsUpper(c) \/ IsLower(c) \/ IsDigit(c)
IsHex(c) == IsDigit(c) \/ c \in {"a","b","c","d","e","f","A","B","C","D","E","F"}

\* url.go stringContainsCTLByte: b < ' ' || b == 0x7f
IsCTL(c) == c \in {TAB, CtlByte}

unhex(c) ==
  IF IsDigit(c) THEN IndexOf(c, DigitChars) - 1
  ELSE IF IsLower(c) THEN IndexOf(c, LowerLetters) + 9
  ELSE IndexOf(c, UpperLetters) + 9

ByteChar(b) ==
  IF b >= 32 /\ b <= 126 THEN Ascii[b - 31]
  ELSE IF b = 9 THEN TAB
  ELSE IF b < 32 \/ b = 127 THEN CtlByte
  ELSE HighByte

ToLowerChar(c) == IF IsUpper(c) THEN LowerLetters[IndexOf(c, UpperLetters)] ELSE c

(***************************************************************************)
(* strings package                                                         *)
(***************************************************************************)
ToLower(s) == [i \in DOMAIN s |-> ToLowerChar(s[i])]

HasPrefix(s, p) == Len(s) >= Len(p) /\ SubSeq(s, 1, Len(p)) = p

HasSuffix(s, p) == Len(s) >= Len(p) /\ SubSeq(s, Len(s) - Len(p) + 1, Len(s)) = p

\* Index of the first / last occurrence of character c in s, 0 when absent.
IndexChar(s, c) ==
  IF \E i \in DOMAIN s : s[i] = c
  THEN CHOOSE i \in DOMAIN s : s[i] = c /\ \A j \in 1..(i - 1) : s[j] # c
  ELSE 0

LastIndexChar(s, c) ==
  IF \E i \in DOMAIN s : s[i] = c
  THEN CHOOSE i \in DOMAIN s : s[i] = c /\ \A j \in (i + 1)..Len(s) : s[j] # c
  ELSE 0

CountChar(s, c) == Cardinality({ i \in DOMAIN s : s[i] = c })

\* strings.Cut(s, c): the text before and after the first c.
CutBefore(s, c) == IF IndexChar(s, c) = 0 THEN s ELSE SubSeq(s, 1, IndexChar(s, c) - 1)
CutAfter(s, c) == IF IndexChar(s, c) = 0 THEN <<>> ELSE SubSeq(s, IndexChar(s, c) + 1, Len(s))

\* strings.Trim(s, "_")
RECURSIVE TrimLeft(_, _)
TrimLeft(s, c) == IF s # <<>> /\ Head(s) = c THEN TrimLeft(Tail(s), c) ELSE s

RECURSIVE TrimRight(_, _)
TrimRight(s, c) ==
  IF s # <<>> /\ s[Len(s)] = c THEN TrimRight(SubSeq(s, 1, Len(s) - 1), c) ELSE s

Trim(s, c) == TrimRight(TrimLeft(s, c), c)

(***************************************************************************)
(* net/url, path and path/filepath, as far as the program's URLs reach.    *)
(* Every URL the program parses is "" or starts with domainURL, so its     *)
(* authority never starts with "[" (an IPv6 literal, not modelled).        *)
(***************************************************************************)
\* url.go unescape, first pass: every "%" is followed by two hex digits.
RECURSIVE EscapesValid(_)
EscapesValid(s) ==
  IF s = <<>> THEN TRUE
  ELSE IF Head(s) = "%"
       THEN /\ Len(s) >= 3
            /\ IsHex(s[2])
            /\ IsHex(s[3])
            /\ EscapesValid(SubSeq(s, 4, Len(s)))
       ELSE EscapesValid(Tail(s))

\* url.go unescape, second pass; plus says whether "+" decodes to a space.
RECURSIVE Decode(_, _)
Decode(s, plus) ==
  IF s = <<>> THEN <<>>
  ELSE IF Head(s) = "%"
       THEN <<ByteChar(16 * unhex(s[2]) + unhex(s[3]))>> \o Decode(SubSeq(s, 4, Len(s)), plus)
       ELSE IF Head(s) = "+" /\ plus
            THEN <<" ">> \o Decode(Tail(s), plus)
            ELSE <<Head(s)>> \o Decode(Tail(s), plus)

\* url.QueryUnescape: on a malformed escape it returns "" and an error.
QueryUnescape(s) ==
  IF EscapesValid(s)
  THEN [err |-> FALSE, s |-> Decode(s, TRUE)]
  ELSE [err |-> TRUE, s |-> <<>>]

\* url.go getScheme
SchemeCharOK(s, i) ==
  \/ IsUpper(s[i]) \/ IsLower(s[i])
  \/ (i > 1 /\ (IsDigit(s[i]) \/ s[i] \in {"+", "-", "."}))

getScheme(raw) ==
  LET i == IndexChar(raw, ":")
      j == IF \E k \in DOMAIN raw : ~SchemeCharOK(raw, k)
           THEN CHOOSE k \in DOMAIN raw :
                  ~SchemeCharOK(raw, k) /\ \A m \in 1..(k - 1) : SchemeCharOK(raw, m)
           ELSE 0
  IN  IF j # 0 /\ j = i
      THEN IF i = 1
           THEN [err |-> TRUE, scheme |-> <<>>, rest |-> <<>>]
           ELSE [err |-> FALSE, scheme |-> SubSeq(raw, 1, i - 1),
                 rest |-> SubSeq(raw, i + 1, Len(raw))]
      ELSE [err |-> FALSE, scheme |-> <<>>, rest |-> raw]

\* url.go validOptionalPort, on the text from the last ":" on.
validOptionalPort(port) ==
  \/ port = <<>>
  \/ /\ Head(port) = ":"
     /\ \A i \in 2..Len(port) : IsDigit(port[i])

\* url.go shouldEscape(c, encodeHost), negated, for the bytes below 0x80.
HostCharOK(c) ==
  \/ IsAlnum(c)
  \/ c \in {"!", "$", "&", "'", "(", ")", "*", "+", ",", ";", "=", ":", "[", "]", "<", ">", "\""}
  \/ c \in {"-", "_", ".", "~"}
  \/ c = HighByte

\* url.go unescape(host, encodeHost): only "%25" and escapes of bytes of
\* 0x80 and above are allowed in a host.
RECURSIVE HostTextOK(_)
HostTextOK(s) ==
  IF s = <<>> THEN TRUE
  ELSE IF Head(s) = "%"
       THEN /\ Len(s) >= 3
            /\ IsHex(s[2])
            /\ IsHex(s[3])
            /\ (unhex(s[2]) >= 8 \/ SubSeq(s, 1, 3) = <<"%", "2", "5">>)
            /\ HostTextOK(SubSeq(s, 4, Len(s)))
       ELSE HostCharOK(Head(s)) /\ HostTextOK(Tail(s))

parseHost(host) ==
  /\ LET i == LastIndexChar(host, ":")
     IN  i = 0 \/ validOptionalPort(SubSeq(host, i, Len(host)))
  /\ HostTextOK(host)

validUserinfo(s) ==
  \A i \in DOMAIN s :
    \/ IsAlnum(s[i])
    \/ s[i] \in {"-", ".", "_", ":", "~", "!", "$", "&", "'", "(", ")", "*", "+", ",", ";", "=", "%", "@"}

\* url.go parseAuthority: TRUE when the authority is accepted.
parseAuthority(authority) ==
  LET i == LastIndexChar(authority, "@")
  IN  IF i = 0
      THEN parseHost(authority)
      ELSE /\ parseHost(SubSeq(authority, i + 1, Len(authority)))
           /\ validUserinfo(SubSeq(authority, 1, i - 1))
           /\ EscapesValid(SubSeq(authority, 1, i - 1))

BadURL == [err |-> TRUE, path |-> <<>>]

\* url.go setPath: the path is unescaped; a malformed escape is an error.
setPath(p) ==
  IF EscapesValid(p) THEN [err |-> FALSE, path |-> Decode(p, FALSE)] ELSE BadURL

\* url.go parse, the query: a lone trailing "?" is dropped, else the text
\* from the first "?" on is the query.
StripQuery(rest) ==
  IF HasSuffix(rest, <<"?">>) /\ CountChar(rest, "?") = 1
  THEN SubSeq(rest, 1, Len(rest) - 1)
  ELSE CutBefore(rest, "?")

\* url.go parse, "//" authority "/" path; afterSl is the text after "//".
parseWithAuthority(afterSl) ==
  IF parseAuthority(CutBefore(afterSl, "/"))
  THEN setPath(SubSeq(afterSl, Len(CutBefore(afterSl, "/")) + 1, Len(afterSl)))
  ELSE BadURL

\* url.go parse, after the scheme and the query are split off.
parseRest(scheme, rest, viaRequest) ==
  IF ~HasPrefix(rest, <<"/">>) /\ scheme # <<>>
  THEN [err |-> FALSE, path |-> <<>>]        \* an opaque URL
  ELSE IF ~HasPrefix(rest, <<"/">>) /\ viaRequest THEN BadURL
  ELSE IF ~HasPrefix(rest, <<"/">>) /\ IndexChar(CutBefore(rest, "/"), ":") # 0 THEN BadURL
  ELSE IF /\ (scheme # <<>> \/ (~viaRequest /\ ~HasPrefix(rest, <<"/", "/", "/">>)))
          /\ HasPrefix(rest, <<"/", "/">>)
       THEN parseWithAuthority(SubSeq(rest, 3, Len(rest)))
       ELSE setPath(rest)

parseScheme(sch, viaRequest) ==
  IF sch.err THEN BadURL ELSE parseRest(sch.scheme, StripQuery(sch.rest), viaRequest)

\* url.go parse(rawURL, viaRequest): the error and the decoded Path.
parse(rawURL, viaRequest) ==
  IF \E i \in DOMAIN rawURL : IsCTL(rawURL[i]) THEN BadURL
  ELSE IF rawURL = <<>> /\ viaRequest THEN BadURL
  ELSE IF rawURL = <<"*">> THEN [err |-> FALSE, path |-> <<"*">>]
  ELSE parseScheme(getScheme(rawURL), viaRequest)

\* url.go setFragment: the fragment is unescaped.
setFragment(u, frag) ==
  IF u.err THEN u
  ELSE IF EscapesValid(frag) THEN u
  ELSE BadURL

\* url.Parse: the fragment is cut off first and unescaped last.
urlParse(rawURL) == setFragment(parse(CutBefore(rawURL, "#"), FALSE), CutAfter(rawURL, "#"))

\* url.ParseRequestURI: no fragment is cut off.
urlParseRequestURI(rawURL) == parse(rawURL, TRUE)

\* path.Base
RECURSIVE Base(_)
Base(p) ==
  IF p = <<>> THEN <<".">>
  ELSE IF p[Len(p)] = "/"
       THEN IF Len(p) = 1 THEN <<"/">> ELSE Base(SubSeq(p, 1, Len(p) - 1))
       ELSE SubSeq(p, LastIndexChar(p, "/") + 1, Len(p))

\* filepath.Join(outputDir, name) for a name without "/": Clean resolves
\* "." and "..".
outputDir == <<"P", "D", "F", "s", "/">>

filepathJoin(dir, name) ==
  IF name = <<".">> THEN SubSeq(dir, 1, Len(dir) - 1)
  ELSE IF name = <<".", ".">> THEN <<".">>
  ELSE dir \o name

(***************************************************************************)
(* The program's pure functions                                            *)
(***************************************************************************)
domainURL ==
  <<"h","t","t","p","s",":","/","/","w","w","w",".","a","v","i","e","n","t",".","c","o","m">>

dotPdf == <<".", "p", "d", "f">>

invalidFilename == <<"i","n","v","a","l","i","d","_","f","i","l","e","n","a","m","e">>

downloadedFile == <<"d","o","w","n","l","o","a","d","e","d","_","f","i","l","e">>

\* isUrlValid
isUrlValid(uri) == ~urlParseRequestURI(uri).err

\* No character is replaced.
KeepUnsafe(s) == s

\* regexp [^\w\-.] replaced by "_"
ReplaceUnsafe(s) ==
  [i \in DOMAIN s |-> IF IsAlnum(s[i]) \/ s[i] \in {"_", "-", "."} THEN s[i] ELSE "_"]

\* sanitizeFileNameFromURL, from the trimmed name on.
FallbackOrLower(safeFileName) ==
  IF safeFileName = <<>> THEN downloadedFile ELSE ToLower(safeFileName)

\* sanitizeFileNameFromURL, from the parsed URL on. The error of
\* QueryUnescape is logged and its result, the empty string, is used.
SanitizeParsed(parsedURL) ==
  IF parsedURL.err THEN invalidFilename
  ELSE FallbackOrLower(Trim(ReplaceUnsafe(QueryUnescape(Base(parsedURL.path)).s), "_"))

sanitizeFileNameFromURL(rawURL) == SanitizeParsed(urlParse(rawURL))

\* The test of parseHTML's callback on one href: it decodes, and gives up
\* on a decoding error.
IsPdfLinkCaseSensitive(href) ==
  LET decodedHref == QueryUnescape(href)
  IN  ~decodedHref.err /\ HasSuffix(decodedHref.s, dotPdf)

IsPdfLink(href) ==
  LET decodedHref == QueryUnescape(href)
  IN  ~decodedHref.err /\ HasSuffix(ToLower(decodedHref.s), dotPdf)

\* parseHTML over a document given as the sequence of its elements in
\* document order, each [tag, hasHref, href]; doc.Find("a[href]").Each(...)
RECURSIVE parseHTML(_)
parseHTML(doc) ==
  IF doc = <<>> THEN <<>>
  ELSE LET e == Head(doc)
       IN  IF e.tag = "a" /\ e.hasHref /\ IsPdfLink(e.href)
           THEN <<e.href>> \o parseHTML(Tail(doc))
           ELSE parseHTML(Tail(doc))

\* removeDuplicatesFromSlice: check is the set of keys of the map.
RECURSIVE DedupLoop(_, _, _)
DedupLoop(slice, check, newReturnSlice) ==
  IF slice = <<>> THEN newReturnSlice
  ELSE IF Head(slice) \notin check
       THEN DedupLoop(Tail(slice), check \cup {Head(slice)}, Append(newReturnSlice, Head(slice)))
       ELSE DedupLoop(Tail(slice), check, newReturnSlice)

RECURSIVE DedupAdjacent(_)
DedupAdjacent(slice) ==
  IF Len(slice) < 2 THEN slice
  ELSE IF slice[1] = slice[2] THEN DedupAdjacent(Tail(slice))
       ELSE <<Head(slice)>> \o DedupAdjacent(Tail(slice))

removeDuplicatesFromSlice(slice) == DedupLoop(slice, {}, <<>>)

\* The slice is left in its order.
NotReversed(s) == s

\* slices.Reverse
Reverse(s) == [i \in DOMAIN s |-> s[Len(s) + 1 - i]]

(***************************************************************************)
(* State                                                                   *)
(***************************************************************************)
VARIABLES
  call,        \* a call of one pure function: [fn, arg, ret, done]
  variant,     \* which copy of the program runs
  html,        \* the elements of the listing HTML the program parses
  fullURLList, \* main's fullURLList
  server,      \* what the server answers to the GET for each link of the list
  mainPc,      \* main: "start", "pages", "fetch", "pagewait", "check",
               \* "readfile", "read", "loop", "call", "wait", "exited"
  exit,        \* how the process ended: "", "normal", "return", "fatal", "panic"
  idx,         \* main's position in its loop over fullURLList
  wg,          \* the counter of the download WaitGroup
  tasks,       \* per link: the state of its downloadPDF call
  fs,          \* the files under the output directory, by path
  fs0,         \* fs as it was when the program started
  listing,     \* the listing pages, the listing file and the page fetches
  totalDownloadCounter \* main's count of the downloads it has launched

vars ==
  <<call, variant, html, fullURLList, server, mainPc, exit, idx, wg, tasks, fs, fs0, listing,
    totalDownloadCounter>>

progVars ==
  <<variant, html, fullURLList, server, mainPc, exit, idx, wg, tasks, fs, fs0, listing,
    totalDownloadCounter>>

NoCall == [fn |-> "none", arg |-> <<>>, ret |-> <<>>, done |-> TRUE]

\* No program runs while a pure function is checked on its own.
NoProgram ==
  /\ variant = "none"
  /\ html = <<>>
  /\ fullURLList = <<>>
  /\ server = <<>>
  /\ mainPc = "exited"
  /\ exit = ""
  /\ idx = 0
  /\ wg = 0
  /\ tasks = <<>>
  /\ fs = <<>>
  /\ fs0 = <<>>
  /\ listing = <<>>
  /\ totalDownloadCounter = 0

(***************************************************************************)
(* The pure functions on bounded inputs                                    *)
(***************************************************************************)
MaxElems == 3
MaxSlice == 4
MaxName == 4

\* All sequences over S of length at most n.
SeqUpTo(S, n) == UNION { [1..k -> S] : k \in 0..n }

\* hrefs: a plain link, an upper-case one, one with a query after ".pdf",
\* one whose dot is percent-encoded, one with a malformed escape, a page.
HrefPool ==
  { <<"/","a",".","p","d","f">>,
    <<"/","A",".","P","D","F">>,
    <<"/","a",".","p","d","f","?","v">>,
    <<"/","a","%","2","E","p","d","f">>,
    <<"/","a","%",".","p","d","f">>,
    <<"/","a",".","h","t","m","l">> }

ElementPool ==
  { [tag |-> "a", hasHref |-> TRUE, href |-> h] : h \in HrefPool }
  \cup { [tag |-> "a", hasHref |-> FALSE, href |-> <<>>],
         [tag |-> "link", hasHref |-> TRUE, href |-> <<"/","a",".","p","d","f">>] }

SlicePool == { <<"/","a",".","p","d","f">>, <<"/","A",".","p","d","f">>, <<"/","b",".","p","d","f">> }

NameChars == {"a", "B", ".", "/", "_", " ", "+", "%", "2", "5", "?", "#"}

InitParse ==
  /\ NoProgram
  /\ \E doc \in SeqUpTo(ElementPool, MaxElems) :
       call = [fn |-> "parseHTML", arg |-> doc, ret |-> <<>>, done |-> FALSE]

CallParseHTML ==
  /\ call.fn = "parseHTML" /\ ~call.done
  /\ call' = [call EXCEPT !.ret = parseHTML(call.arg), !.done = TRUE]
  /\ UNCHANGED progVars

SpecParse == InitParse /\ [][CallParseHTML]_vars

InitDedup ==
  /\ NoProgram
  /\ \E slice \in SeqUpTo(SlicePool, MaxSlice) :
       call = [fn |-> "removeDuplicatesFromSlice", arg |-> slice, ret |-> <<>>, done |-> FALSE]

CallRemoveDuplicates ==
  /\ call.fn = "removeDuplicatesFromSlice" /\ ~call.done
  /\ call' = [call EXCEPT !.ret = removeDuplicatesFromSlice(call.arg), !.done = TRUE]
  /\ UNCHANGED progVars

SpecDedup == InitDedup /\ [][CallRemoveDuplicates]_vars

InitSanitize ==
  /\ NoProgram
  /\ \E name \in SeqUpTo(NameChars, MaxName) :
       call = [fn |-> "sanitizeFileNameFromURL", arg |-> domainURL \o <<"/">> \o name,
               ret |-> <<>>, done |-> FALSE]

CallSanitize ==
  /\ call.fn = "sanitizeFileNameFromURL" /\ ~call.done
  /\ call' = [call EXCEPT !.ret = sanitizeFileNameFromURL(call.arg), !.done = TRUE]
  /\ UNCHANGED progVars

SpecSanitize == InitSanitize /\ [][CallSanitize]_vars

(***************************************************************************)
(* Claims about the pure functions                                         *)
(***************************************************************************)
\* The hrefs of the anchors of doc that have an href passing test P, in
\* document order.
AnchorsWhere(doc, P(_)) ==
  LET sel == SelectSeq(doc, LAMBDA e : e.tag = "a" /\ e.hasHref /\ P(e.href))
  IN  [i \in DOMAIN sel |-> sel[i].href]

RawEndsInPdf(href) == HasSuffix(ToLower(href), dotPdf)

DecodedEndsInPdf(href) ==
  EscapesValid(href) /\ HasSuffix(ToLower(Decode(href, TRUE)), dotPdf)

FirstIndex(s, x) == CHOOSE i \in DOMAIN s : s[i] = x /\ \A j \in 1..(i - 1) : s[j] # x

\* C9: the result of removeDuplicatesFromSlice holds no string twice, holds
\* every distinct string of the input, in the order of first occurrence.
C9_Dedup ==
  (call.fn = "removeDuplicatesFromSlice" /\ call.done) =>
    /\ \A i, j \in DOMAIN call.ret : call.ret[i] = call.ret[j] => i = j
    /\ Range(call.ret) = Range(call.arg)
    /\ \A i, j \in DOMAIN call.ret :
         i < j => FirstIndex(call.arg, call.ret[i]) < FirstIndex(call.arg, call.ret[j])

\* A slice whose first string comes back after another one has been
\* deduplicated.
C9_Witness ==
  /\ call.fn = "removeDuplicatesFromSlice" /\ call.done
  /\ Len(call.arg) >= 3
  /\ call.arg[1] = call.arg[3]
  /\ call.arg[1] # call.arg[2]
  /\ Len(call.ret) < Len(call.arg)

\* The name C10 describes, for a URL that parses: the last segment of the
\* URL's path, unsafe characters replaced, underscores trimmed, lowercased,
\* with the fallback for an empty result.
ClaimedFrom(safe) == IF safe = <<>> THEN downloadedFile ELSE ToLower(safe)

ClaimedFileName(rawURL) == ClaimedFrom(Trim(ReplaceUnsafe(Base(urlParse(rawURL).path)), "_"))

\* C10: for every URL, sanitizeFileNameFromURL returns the last path
\* segment with every character outside [A-Za-z0-9_.-] replaced by "_",
\* leading and trailing "_" removed, lowercased, or "downloaded_file" when
\* that is empty.
C10_AsStated ==
  (call.fn = "sanitizeFileNameFromURL" /\ call.done /\ ~urlParse(call.arg).err) =>
    call.ret = ClaimedFileName(call.arg)

(***************************************************************************)
(* The program: main and its downloadPDF calls                             *)
(***************************************************************************)
MaxAnchors == 2

Variants == {"main", "p000", "p2", "p3"}

\* Only the second program of part_001 starts goroutines.
ConcurrentOnlyP2(v) == v = "p2"

\* The copies that run downloadPDF as goroutines; p3 calls it in line.
Concurrent(v) == v \in {"main", "p000", "p2"}

\* The copies whose main tests the file before it launches the download.
ChecksInMain(v) == v \in {"p2", "p3"}

\* Links of the listing: a relative link, a second one with the same base
\* name in upper case, an absolute link, a link with a TAB in it, a link
\* whose path is one character long.
LinkPool ==
  { <<"/","a",".","p","d","f">>,
    <<"/","x","/","A",".","P","D","F">>,
    domainURL \o <<"/","b",".","p","d","f">>,
    <<"/","c",TAB,".","p","d","f">>,
    <<"/","e","?",".","p","d","f">> }

\* Links made to leave the output directory: the last segment of the path
\* is ".", is "..", holds a separator encoded twice, or comes after an
\* encoded separator and "..".
DotLinks ==
  { <<"/",".","?",".","p","d","f">>,
    <<"/",".",".","?",".","p","d","f">>,
    <<"/","x","%","2","5","2","F","y",".","p","d","f">>,
    <<"/",".",".","%","2","F","b",".","p","d","f">> }

AllLinks == LinkPool \cup DotLinks

Anchor(h) == [tag |-> "a", hasHref |-> TRUE, href |-> h]

\* What a server can answer to a GET: a transport error, or a status, a
\* Content-Type (its parts) and a body that arrives whole ("ok"), is empty,
\* or breaks off while it is read ("fail").
pdfType == <<"application/pdf">>
pdfTypeCharset == <<"application/pdf", "; charset=binary">>
htmlType == <<"text/html">>

NoServer == [err |-> TRUE, status |-> 0, ct |-> <<>>, body |-> "fail"]

Responses ==
  { NoServer,
    [err |-> FALSE, status |-> 404, ct |-> htmlType, body |-> "ok"],
    [err |-> FALSE, status |-> 200, ct |-> htmlType, body |-> "ok"],
    [err |-> FALSE, status |-> 200, ct |-> pdfTypeCharset, body |-> "ok"] }
  \cup { [err |-> FALSE, status |-> 200, ct |-> pdfType, body |-> b] : b \in {"ok", "empty", "fail"} }

\* main: the URL built from a link. Only main.go prepends the domain to
\* every link; the other copies leave fullURL empty for a link that
\* already starts with the domain.
FullURL(v, url) ==
  IF v = "main" THEN domainURL \o url
  ELSE IF ~HasPrefix(url, domainURL) THEN domainURL \o url
  ELSE <<>>

\* main.go downloadPDF: ".pdf" is appended to a name that lacks it.
WithPdfSuffix(filename) ==
  IF ~HasSuffix(ToLower(filename), dotPdf) THEN filename \o dotPdf ELSE filename

\* main.go downloadPDF: an empty name is replaced by path.Base(finalURL).
OrBase(filename, finalURL) == IF filename = <<>> THEN Base(finalURL) ELSE filename

\* The file name a copy of the program derives from a URL.
FileName(v, finalURL) ==
  IF v = "main"
  THEN WithPdfSuffix(OrBase(sanitizeFileNameFromURL(finalURL), finalURL))
  ELSE sanitizeFileNameFromURL(finalURL)

FilePath(v, finalURL) == filepathJoin(outputDir, FileName(v, finalURL))

\* The URL a link stands for: the link itself when it is absolute.
IntendedURL(url) == IF HasPrefix(url, domainURL) THEN url ELSE domainURL \o url

\* What each copy of the program computes from each link of the pool
\* before it downloads: fullURL, isUrlValid(fullURL), filename, filePath.
LinkInfo ==
  [v \in Variants |->
    [h \in AllLinks |->
      [url |-> FullURL(v, h),
       valid |-> isUrlValid(FullURL(v, h)),
       name |-> FileName(v, FullURL(v, h)),
       path |-> FilePath(v, FullURL(v, h)),
       reachable |-> isUrlValid(IntendedURL(h)),
       intendedPath |-> FilePath(v, IntendedURL(h))]]]

\* The URL, its validity, the file name and the path of link i of the list.
UrlOf(i) == LinkInfo[variant][fullURLList[i]].url
ValidOf(i) == LinkInfo[variant][fullURLList[i]].valid
NameOf(i) == LinkInfo[variant][fullURLList[i]].name
PathOf(i) == LinkInfo[variant][fullURLList[i]].path

\* Every path a link of the pool can lead to.
ProgPaths ==
  UNION { { LinkInfo[v][h].path : h \in { l \in AllLinks : LinkInfo[v][l].valid } }
          \cup { LinkInfo[v][h].intendedPath : h \in { l \in AllLinks : LinkInfo[v][l].reachable } } :
          v \in Variants }

\* The paths the links of document doc lead to in copy v.
PathsOf(v, doc) ==
  { LinkInfo[v][doc[k].href].path : k \in { j \in DOMAIN doc : LinkInfo[v][doc[j].href].valid } }
  \cup { LinkInfo[v][doc[k].href].intendedPath :
           k \in { j \in DOMAIN doc : LinkInfo[v][doc[j].href].reachable } }

Absent == [kind |-> "absent", data |-> "none", src |-> 0]
OldFile == [kind |-> "file", data |-> "old", src |-> 0]
Directory == [kind |-> "dir", data |-> "none", src |-> 0]

\* The working directory and the output directory are directories.
DirPaths == { <<".">>, SubSeq(outputDir, 1, Len(outputDir) - 1) }

\* What can be on disk when copy v starts on the listing doc: anything at
\* the paths the links of doc lead to, nothing at the other paths.
StartFs(v, doc) ==
  { [p \in ProgPaths |-> IF p \in DirPaths THEN Directory
                         ELSE IF p \in DOMAIN g THEN g[p] ELSE Absent] :
      g \in [PathsOf(v, doc) -> {Absent, OldFile, Directory}] }

\* fileExists: os.Stat succeeds and the entry is no directory.
fileExistsIfDir(p) == fs[p].kind = "dir"

\* A file that a broken copy left is not taken for a file.
fileExistsWhole(p) == fs[p].kind = "file" /\ fs[p].data # "partial"

fileExists(p) == fs[p].kind = "file"

\* For the record kept in tasks[i].present: a regular file is at path p.
RegularFileAt(p) == fs[p].kind = "file"

\* Only the second program of part_001 tests the listing file first.
CachesOnlyP2(v) == v = "p2"

\* The copies that fetch the listing pages only when the listing file is
\* missing, and fetch them as goroutines.
CachesListing(v) == v \in {"p000", "p2"}

\* Only part_000 ends the process on such an error.
FatalOnlyP000(v) == v = "p000"

\* The copies whose getDataFromURL, appendAndWriteToFile and
\* readAFileAsString end the process with log.Fatalln on an error; the
\* second and third programs of part_001 log the error and go on.
FatalOnError(v) == v \in {"main", "p000"}

\* The third program keeps no listing file.
WritesListing(v) == v # "p3"

\* The listing file is a sequence of chunks: what it held when the program
\* started (page 0), and one chunk per appendAndWriteToFile call, the body
\* of a page (whole, or cut short by a failed read) and the "\n" after it.
OldChunk == [page |-> 0, whole |-> TRUE, nl |-> FALSE]

PageChunk(k, got) == [page |-> k, whole |-> got = "ok", nl |-> TRUE]

\* The file opened with O_TRUNC in place of O_APPEND.
TruncateAndWrite(file, chunk) == [kind |-> "file", content |-> <<chunk>>]

\* os.OpenFile(path, O_APPEND|O_CREATE|O_WRONLY) and WriteString(content +
\* "\n"): one write at the end of the file, which O_APPEND makes atomic.
AppendToFile(file, chunk) == [kind |-> "file", content |-> Append(file.content, chunk)]

\* The elements a chunk of the listing file holds.
ChunkDoc(c) ==
  IF c.page = 0 THEN listing.old
  ELSE IF c.whole THEN listing.site[c.page]
  ELSE <<>>

\* readAFileAsString: the elements of the whole file.
RECURSIVE ContentDoc(_)
ContentDoc(content) ==
  IF content = <<>> THEN <<>>
  ELSE ChunkDoc(Head(content)) \o ContentDoc(Tail(content))

\* A getDataFromURL call for a page: where it stands, what its GET gave
\* ("none", "ok", "partial", "err"), the GETs issued, whether its append
\* to the listing file was done.
IdlePage == [pc |-> "idle", got |-> "none", gets |-> 0, written |-> FALSE]

\* The listing phase is over and the listing file holds the elements doc.
ListingOver(doc) ==
  [site |-> <<>>, kind0 |-> "file", old |-> doc,
   file |-> [kind |-> "file", content |-> <<OldChunk>>],
   page |-> 0, pages |-> <<>>, wg |-> 0, error |-> "none"]

\* pc is where the downloadPDF call for the link stands; the rest is a
\* record of what happened: the GETs issued, whether the call created or
\* wrote its file, whether a regular file was there when the download
\* step for the link began (the test in main of p2 and p3, the start of
\* downloadPDF in main.go and part_000), the steps taken for the link in
\* the order they were taken, what downloadPDF returned, and the place of
\* the call among the downloadPDF calls of the run (0: not called).
IdleTask ==
  [pc |-> "idle", gets |-> 0, wrote |-> FALSE, present |-> FALSE, steps |-> <<>>, ret |-> "none",
   order |-> 0]

Init ==
  /\ call = NoCall
  /\ variant \in Variants
  /\ html \in SeqUpTo({ Anchor(h) : h \in LinkPool }, MaxAnchors)
  /\ fullURLList = <<>>
  /\ server = <<>>
  /\ mainPc = "read"
  /\ exit = ""
  /\ idx = 0
  /\ wg = 0
  /\ tasks = <<>>
  /\ fs \in StartFs(variant, html)
  /\ fs0 = fs
  /\ listing = ListingOver(html)
  /\ totalDownloadCounter = 0

\* main: read the listing, extract the links, deduplicate (not in p3),
\* reverse (p000). The servers' answers are fixed from here on. The third
\* program does this page by page: fullURLList holds the links of the pages
\* gone through, then those of the page just parsed.
ReadListing ==
  /\ mainPc = "read"
  /\ LET links == parseHTML(html)
         list == IF variant = "p3" THEN fullURLList \o links
                 ELSE IF variant = "p000" THEN Reverse(removeDuplicatesFromSlice(links))
                 ELSE removeDuplicatesFromSlice(links)
     IN  /\ fullURLList' = list
         /\ tasks' = [i \in DOMAIN list |-> IF i \in DOMAIN tasks THEN tasks[i] ELSE IdleTask]
         /\ server' \in [DOMAIN list -> Responses]
         /\ \A i \in DOMAIN server : server'[i] = server[i]
         /\ \A i \in DOMAIN list :
              ~LinkInfo[variant][list[i]].reachable => server'[i] = NoServer
  /\ mainPc' = "loop"
  /\ idx' = Len(fullURLList) + 1
  /\ UNCHANGED <<call, variant, html, exit, wg, fs, fs0, listing, totalDownloadCounter>>

InLoop == mainPc = "loop" /\ idx <= Len(fullURLList)

\* The downloadPDF calls made so far.
Launched == Cardinality({ i \in DOMAIN tasks : tasks[i].order > 0 })

\* main.go: an invalid URL makes main return, past the Wait.
MainInvalidReturn ==
  /\ InLoop
  /\ variant = "main"
  /\ ~ValidOf(idx)
  /\ tasks' = [tasks EXCEPT ![idx].steps = <<"validate">>]
  /\ mainPc' = "exited"
  /\ exit' = "return"
  /\ UNCHANGED <<call, variant, html, fullURLList, server, idx, wg, fs, fs0, listing, totalDownloadCounter>>

\* the other copies: an invalid URL is skipped.
MainInvalidContinue ==
  /\ InLoop
  /\ variant # "main"
  /\ ~ValidOf(idx)
  /\ tasks' = [tasks EXCEPT ![idx].steps = <<"validate">>]
  /\ idx' = idx + 1
  /\ UNCHANGED <<call, variant, html, fullURLList, server, mainPc, exit, wg, fs, fs0, listing, totalDownloadCounter>>

\* p2, p3: main skips a link whose file exists.
MainSkipExisting ==
  /\ InLoop
  /\ ChecksInMain(variant)
  /\ ValidOf(idx)
  /\ fileExists(PathOf(idx))
  /\ tasks' = [tasks EXCEPT ![idx].present = RegularFileAt(PathOf(idx)),
                            ![idx].steps = <<"validate", "exists">>]
  /\ idx' = idx + 1
  /\ UNCHANGED <<call, variant, html, fullURLList, server, mainPc, exit, wg, fs, fs0, listing, totalDownloadCounter>>

\* p2, p3: main skips a file name shorter than two characters.
MainSkipShort ==
  /\ InLoop
  /\ ChecksInMain(variant)
  /\ ValidOf(idx)
  /\ ~fileExists(PathOf(idx))
  /\ Len(NameOf(idx)) < 2
  /\ tasks' = [tasks EXCEPT ![idx].present = RegularFileAt(PathOf(idx)),
                            ![idx].steps = <<"validate", "exists">>]
  /\ idx' = idx + 1
  /\ UNCHANGED <<call, variant, html, fullURLList, server, mainPc, exit, wg, fs, fs0, listing, totalDownloadCounter>>

\* p2: the downloads main may launch before it stops.
DownloadLimit == 8000

\* Only the second program of part_001 counts the downloads it launches.
CountsDownloads(v) == v = "p2"

\* The count is never compared with the limit.
LimitNeverReached(n) == FALSE

\* p2: if totalDownloadCounter == 8000 { log.Fatalln(...) }
LimitReached(n) == n = DownloadLimit

\* main.go, part_000, p2: wg.Add(1); go downloadPDF(...); p2 then counts
\* the download and ends the process with log.Fatalln at the limit.
MainLaunch ==
  /\ InLoop
  /\ Concurrent(variant)
  /\ ValidOf(idx)
  /\ ChecksInMain(variant) =>
       ~fileExists(PathOf(idx)) /\ Len(NameOf(idx)) >= 2
  /\ wg' = wg + 1
  /\ tasks' = [tasks EXCEPT ![idx].pc = IF ChecksInMain(variant) THEN "get" ELSE "start",
                            ![idx].present = ChecksInMain(variant) /\ RegularFileAt(PathOf(idx)),
                            ![idx].steps = IF ChecksInMain(variant) THEN <<"validate", "exists">>
                                           ELSE <<"validate">>,
                            ![idx].order = Launched + 1]
  /\ totalDownloadCounter' =
       IF CountsDownloads(variant) THEN totalDownloadCounter + 1 ELSE totalDownloadCounter
  /\ IF CountsDownloads(variant) /\ LimitReached(totalDownloadCounter + 1)
     THEN mainPc' = "exited" /\ exit' = "fatal" /\ idx' = idx
     ELSE idx' = idx + 1 /\ UNCHANGED <<mainPc, exit>>
  /\ UNCHANGED <<call, variant, html, fullURLList, server, fs, fs0, listing>>

\* p3: downloadPDF(fullURL, filePath), called in line.
MainCall ==
  /\ InLoop
  /\ variant = "p3"
  /\ ValidOf(idx)
  /\ ~fileExists(PathOf(idx))
  /\ Len(NameOf(idx)) >= 2
  /\ tasks' = [tasks EXCEPT ![idx].pc = "get", ![idx].present = RegularFileAt(PathOf(idx)),
                            ![idx].steps = <<"validate", "exists">>,
                            ![idx].order = Launched + 1]
  /\ mainPc' = "call"
  /\ UNCHANGED <<call, variant, html, fullURLList, server, exit, idx, wg, fs, fs0, listing, totalDownloadCounter>>

MainCallReturns ==
  /\ mainPc = "call"
  /\ tasks[idx].pc = "done"
  /\ mainPc' = "loop"
  /\ idx' = idx + 1
  /\ UNCHANGED <<call, variant, html, fullURLList, server, exit, wg, tasks, fs, fs0, listing, totalDownloadCounter>>

\* Pages of the listing are left to fetch.
PagesLeft == listing.page < Len(listing.site)

\* The loop is over: the concurrent copies go to Wait, p3 goes to its next
\* page or ends.
MainLoopEnds ==
  /\ mainPc = "loop"
  /\ idx > Len(fullURLList)
  /\ mainPc' = IF Concurrent(variant) THEN "wait" ELSE IF PagesLeft THEN "pages" ELSE "exited"
  /\ exit' = IF Concurrent(variant) \/ PagesLeft THEN exit ELSE "normal"
  /\ UNCHANGED <<call, variant, html, fullURLList, server, idx, wg, tasks, fs, fs0, listing, totalDownloadCounter>>

\* wg.Wait() returns when the counter is zero; main ends.
MainWaitReturns ==
  /\ mainPc = "wait"
  /\ wg = 0
  /\ mainPc' = "exited"
  /\ exit' = "normal"
  /\ UNCHANGED <<call, variant, html, fullURLList, server, idx, wg, tasks, fs, fs0, listing, totalDownloadCounter>>

\* A goroutine runs only while the process lives.
Running(i) == mainPc # "exited" /\ i \in DOMAIN tasks

\* The task returns without wg.Done().
WgNoDone == wg

\* defer wg.Done() of the concurrent copies.
WgAfterDone == IF Concurrent(variant) THEN wg - 1 ELSE wg

\* main.go, part_000: downloadPDF starts with the test of the file.
TaskSkipExisting(i) ==
  /\ Running(i)
  /\ tasks[i].pc = "start"
  /\ fileExists(PathOf(i))
  /\ tasks' = [tasks EXCEPT ![i].pc = "done", ![i].present = RegularFileAt(PathOf(i)),
                            ![i].steps = Append(@, "exists"), ![i].ret = "false"]
  /\ wg' = WgAfterDone
  /\ UNCHANGED <<call, variant, html, fullURLList, server, mainPc, exit, idx, fs, fs0, listing, totalDownloadCounter>>

TaskStart(i) ==
  /\ Running(i)
  /\ tasks[i].pc = "start"
  /\ ~fileExists(PathOf(i))
  /\ tasks' = [tasks EXCEPT ![i].pc = "get", ![i].present = RegularFileAt(PathOf(i)),
                            ![i].steps = Append(@, "exists")]
  /\ UNCHANGED <<call, variant, html, fullURLList, server, mainPc, exit, idx, wg, fs, fs0, listing, totalDownloadCounter>>

\* client.Get(finalURL): the request goes out.
TaskGet(i) ==
  /\ Running(i)
  /\ tasks[i].pc = "get"
  /\ tasks' = [tasks EXCEPT ![i].pc = "await", ![i].gets = @ + 1, ![i].steps = Append(@, "get")]
  /\ UNCHANGED <<call, variant, html, fullURLList, server, mainPc, exit, idx, wg, fs, fs0, listing, totalDownloadCounter>>

\* resp.StatusCode != http.StatusOK, negated
StatusAny(resp) == TRUE

StatusOK(resp) == resp.status = 200

\* The Content-Type test: none in main.go, equality in part_000,
\* strings.Contains in p2 and p3.
ContentTypeOK(v, resp) ==
  IF v = "main" THEN TRUE
  ELSE IF v = "p000" THEN resp.ct = pdfType
  ELSE \E k \in DOMAIN resp.ct : resp.ct[k] = "application/pdf"

\* p2, p3 read the whole body into a buffer before they create the file,
\* and give up on a read error or on zero bytes.
BufferAny(v, resp) == TRUE

\* Only a read error is tested, not the zero bytes.
BufferUnlessReadFails(v, resp) == ChecksInMain(v) => resp.body # "fail"

BufferOK(v, resp) == ChecksInMain(v) => resp.body = "ok"

\* Every response is taken for a good one.
AcceptedAnyResponse(v, resp) == TRUE

\* The response arrives: the error, status, Content-Type (and buffering)
\* tests decide whether the file is created.
Accepted(v, resp) ==
  /\ ~resp.err
  /\ StatusOK(resp)
  /\ ContentTypeOK(v, resp)
  /\ BufferOK(v, resp)

\* The status of a response is looked at when client.Get gave one.
AfterResponse(steps, resp) == IF resp.err THEN steps ELSE Append(steps, "status")

TaskRejected(i) ==
  /\ Running(i)
  /\ tasks[i].pc = "await"
  /\ ~Accepted(variant, server[i])
  /\ tasks' = [tasks EXCEPT ![i].pc = "done", ![i].steps = AfterResponse(@, server[i]),
                            ![i].ret = "false"]
  /\ wg' = WgAfterDone
  /\ UNCHANGED <<call, variant, html, fullURLList, server, mainPc, exit, idx, fs, fs0, listing, totalDownloadCounter>>

TaskAccepted(i) ==
  /\ Running(i)
  /\ tasks[i].pc = "await"
  /\ Accepted(variant, server[i])
  /\ tasks' = [tasks EXCEPT ![i].pc = "create", ![i].steps = AfterResponse(@, server[i])]
  /\ UNCHANGED <<call, variant, html, fullURLList, server, mainPc, exit, idx, wg, fs, fs0, listing, totalDownloadCounter>>

\* os.Create(filePath) fails on a directory.
TaskCreateFails(i) ==
  /\ Running(i)
  /\ tasks[i].pc = "create"
  /\ fs[PathOf(i)].kind = "dir"
  /\ tasks' = [tasks EXCEPT ![i].pc = "done", ![i].steps = Append(@, "create"),
                            ![i].ret = "false"]
  /\ wg' = WgAfterDone
  /\ UNCHANGED <<call, variant, html, fullURLList, server, mainPc, exit, idx, fs, fs0, listing, totalDownloadCounter>>

\* os.Create(filePath) creates the file or truncates the one there.
TaskCreate(i) ==
  /\ Running(i)
  /\ tasks[i].pc = "create"
  /\ fs[PathOf(i)].kind # "dir"
  /\ fs' = [fs EXCEPT ![PathOf(i)] = [kind |-> "file", data |-> "empty", src |-> i]]
  /\ tasks' = [tasks EXCEPT ![i].pc = "copy", ![i].wrote = TRUE, ![i].steps = Append(@, "create")]
  /\ UNCHANGED <<call, variant, html, fullURLList, server, mainPc, exit, idx, wg, fs0, listing, totalDownloadCounter>>

\* io.Copy(out, resp.Body) in main.go and part_000, buf.WriteTo(out) in p2
\* and p3: what the file holds afterwards.
Written(v, resp) ==
  IF ChecksInMain(v) \/ resp.body = "ok" THEN "full"
  ELSE IF resp.body = "empty" THEN "empty"
  ELSE "partial"

\* downloadPDF returns false when the copy broke off, true otherwise.
CopyReturns(v, resp) == IF Written(v, resp) = "partial" THEN "false" ELSE "true"

TaskCopy(i) ==
  /\ Running(i)
  /\ tasks[i].pc = "copy"
  /\ fs' = [fs EXCEPT ![PathOf(i)] =
              [kind |-> "file", data |-> Written(variant, server[i]), src |-> i]]
  /\ tasks' = [tasks EXCEPT ![i].pc = "done", ![i].ret = CopyReturns(variant, server[i])]
  /\ wg' = WgAfterDone
  /\ UNCHANGED <<call, variant, html, fullURLList, server, mainPc, exit, idx, fs0, listing, totalDownloadCounter>>

Next ==
  \/ ReadListing
  \/ MainInvalidReturn
  \/ MainInvalidContinue
  \/ MainSkipExisting
  \/ MainSkipShort
  \/ MainLaunch
  \/ MainCall
  \/ MainCallReturns
  \/ MainLoopEnds
  \/ MainWaitReturns
  \/ \E i \in 1..MaxAnchors :
       \/ TaskSkipExisting(i)
       \/ TaskStart(i)
       \/ TaskGet(i)
       \/ TaskRejected(i)
       \/ TaskAccepted(i)
       \/ TaskCreateFails(i)
       \/ TaskCreate(i)
       \/ TaskCopy(i)

Spec == Init /\ [][Next]_vars

(***************************************************************************)
(* The whole run: the listing pages are fetched, then the downloads        *)
(***************************************************************************)
MaxPages == 2

\* The links the pages of the site hold: a good link, one with a TAB in
\* it, one whose path is one character long.
RunLinkPool ==
  { <<"/","a",".","p","d","f">>,
    <<"/","c",TAB,".","p","d","f">>,
    <<"/","e","?",".","p","d","f">> }

PageDocs == SeqUpTo({ Anchor(h) : h \in RunLinkPool }, 1)

\* The elements of pages 1 to n of the site, in page order.
RECURSIVE SiteDoc(_, _)
SiteDoc(site, n) == IF n = 0 THEN <<>> ELSE SiteDoc(site, n - 1) \o site[n]

InitRun ==
  /\ call = NoCall
  /\ variant \in Variants
  /\ html = <<>>
  /\ fullURLList = <<>>
  /\ server = <<>>
  /\ mainPc = "start"
  /\ exit = ""
  /\ idx = 0
  /\ wg = 0
  /\ tasks = <<>>
  /\ \E site \in [1..MaxPages -> PageDocs], kind0 \in {"absent", "file", "dir"}, old \in PageDocs :
       /\ kind0 # "file" => old = <<>>
       /\ variant = "p3" => kind0 = "absent"
       /\ Len(old) + Len(SiteDoc(site, MaxPages)) <= MaxAnchors
       /\ listing = [site |-> site, kind0 |-> kind0, old |-> old,
                     file |-> IF kind0 = "file" THEN [kind |-> "file", content |-> <<OldChunk>>]
                              ELSE [kind |-> kind0, content |-> <<>>],
                     page |-> 0, pages |-> [k \in 1..MaxPages |-> IdlePage],
                     wg |-> 0, error |-> "none"]
       /\ fs \in StartFs(variant, old \o SiteDoc(site, MaxPages))
  /\ fs0 = fs
  /\ totalDownloadCounter = 0

\* part_000, p2: if !fileExists(localLocation) { fetch the pages }; main.go
\* and p3 fetch them in any case.
ListingStart ==
  /\ mainPc = "start"
  /\ mainPc' = IF CachesListing(variant) /\ listing.file.kind = "file" THEN "check" ELSE "pages"
  /\ UNCHANGED <<call, variant, html, fullURLList, server, exit, idx, wg, tasks, fs, fs0, listing, totalDownloadCounter>>

\* part_000, p2: htmlDownloadWaitGroup.Add(1); go getDataFromURL(...)
PageLaunch ==
  /\ mainPc = "pages"
  /\ CachesListing(variant)
  /\ PagesLeft
  /\ listing' = [listing EXCEPT !.page = @ + 1, !.wg = @ + 1, !.pages[listing.page + 1].pc = "get"]
  /\ UNCHANGED <<call, variant, html, fullURLList, server, mainPc, exit, idx, wg, tasks, fs, fs0, totalDownloadCounter>>

\* main.go, p3: getDataFromURL(fullURL), called in line.
PageCall ==
  /\ mainPc = "pages"
  /\ ~CachesListing(variant)
  /\ PagesLeft
  /\ listing' = [listing EXCEPT !.page = @ + 1, !.pages[listing.page + 1].pc = "get"]
  /\ mainPc' = "fetch"
  /\ UNCHANGED <<call, variant, html, fullURLList, server, exit, idx, wg, tasks, fs, fs0, totalDownloadCounter>>

\* What p3 parses: the string getDataFromURL returned.
Returned(pg, k) == IF pg.got = "ok" THEN listing.site[k] ELSE <<>>

\* main.go goes to its next page, p3 parses the page it got.
PageCallReturns ==
  /\ mainPc = "fetch"
  /\ listing.pages[listing.page].pc = "done"
  /\ mainPc' = IF variant = "p3" THEN "read" ELSE "pages"
  /\ html' = IF variant = "p3" THEN Returned(listing.pages[listing.page], listing.page) ELSE html
  /\ UNCHANGED <<call, variant, fullURLList, server, exit, idx, wg, tasks, fs, fs0, listing, totalDownloadCounter>>

\* The loop over the pages is over: part_000 and p2 wait for the fetches,
\* main.go goes on to the listing file.
PagesLoopEnds ==
  /\ mainPc = "pages"
  /\ variant # "p3"
  /\ ~PagesLeft
  /\ mainPc' = IF CachesListing(variant) THEN "pagewait" ELSE "check"
  /\ UNCHANGED <<call, variant, html, fullURLList, server, exit, idx, wg, tasks, fs, fs0, listing, totalDownloadCounter>>

\* htmlDownloadWaitGroup.Wait()
PageWaitReturns ==
  /\ mainPc = "pagewait"
  /\ listing.wg = 0
  /\ mainPc' = "check"
  /\ UNCHANGED <<call, variant, html, fullURLList, server, exit, idx, wg, tasks, fs, fs0, listing, totalDownloadCounter>>

PageRunning(k) == mainPc # "exited" /\ k \in DOMAIN listing.pages

\* How the process ends on an error of the listing phase: log.Fatalln, or
\* the nil response of a failed http.Get dereferenced.
Crash(v) == IF FatalOnError(v) THEN "fatal" ELSE "panic"

\* defer wg.Done() at the end of getDataFromURL in part_000 and p2.
PageWgAfterDone == IF CachesListing(variant) THEN listing.wg - 1 ELSE listing.wg

\* getDataFromURL: http.Get and io.ReadAll give the page.
PageGet(k) ==
  /\ PageRunning(k)
  /\ listing.pages[k].pc = "get"
  /\ listing' = [listing EXCEPT !.pages[k].got = "ok", !.pages[k].gets = @ + 1,
                                !.pages[k].pc = IF WritesListing(variant) THEN "append" ELSE "done"]
  /\ UNCHANGED <<call, variant, html, fullURLList, server, mainPc, exit, idx, wg, tasks, fs, fs0, totalDownloadCounter>>

\* getDataFromURL: http.Get fails. main.go and part_000 end with
\* log.Fatalln. p2 and p3 log and go on to io.ReadAll(response.Body): the
\* response of a failed http.Get is nil, and the read of its Body ends
\* the process with a panic; only when the redirect policy stopped the
\* request is there a response, its body closed, and the call goes on
\* with an empty page.
PageGetFails(k) ==
  /\ PageRunning(k)
  /\ listing.pages[k].pc = "get"
  /\ \E response \in {"nil", "closed"} :
       IF FatalOnError(variant) \/ response = "nil"
       THEN /\ listing' = [listing EXCEPT !.pages[k].got = "err", !.pages[k].gets = @ + 1,
                                          !.error = "get"]
            /\ mainPc' = "exited"
            /\ exit' = Crash(variant)
       ELSE /\ listing' = [listing EXCEPT !.pages[k].got = "err", !.pages[k].gets = @ + 1,
                                          !.error = "get",
                                          !.pages[k].pc = IF WritesListing(variant) THEN "append"
                                                          ELSE "done"]
            /\ UNCHANGED <<mainPc, exit>>
  /\ UNCHANGED <<call, variant, html, fullURLList, server, idx, wg, tasks, fs, fs0, totalDownloadCounter>>

\* getDataFromURL: io.ReadAll fails. main.go and part_000 end with
\* log.Fatalln; p2 and p3 log and go on with what was read.
PageBodyFails(k) ==
  /\ PageRunning(k)
  /\ listing.pages[k].pc = "get"
  /\ listing' = [listing EXCEPT !.pages[k].got = "partial", !.pages[k].gets = @ + 1, !.error = "body",
                                !.pages[k].pc = IF FatalOnError(variant) THEN @
                                                ELSE IF WritesListing(variant) THEN "append" ELSE "done"]
  /\ mainPc' = IF FatalOnError(variant) THEN "exited" ELSE mainPc
  /\ exit' = IF FatalOnError(variant) THEN "fatal" ELSE exit
  /\ UNCHANGED <<call, variant, html, fullURLList, server, idx, wg, tasks, fs, fs0, totalDownloadCounter>>

\* appendAndWriteToFile: the page and a newline are appended.
PageAppend(k) ==
  /\ PageRunning(k)
  /\ listing.pages[k].pc = "append"
  /\ listing.file.kind # "dir"
  /\ listing' = [listing EXCEPT !.file = AppendToFile(@, PageChunk(k, listing.pages[k].got)),
                                !.pages[k].written = TRUE,
                                !.pages[k].pc = "done",
                                !.wg = PageWgAfterDone]
  /\ UNCHANGED <<call, variant, html, fullURLList, server, mainPc, exit, idx, wg, tasks, fs, fs0, totalDownloadCounter>>

\* appendAndWriteToFile: os.OpenFile fails (always on a directory). main.go
\* and part_000 end with log.Fatalln; p2 logs, writes to the nil file,
\* logs that too and returns.
PageAppendFails(k) ==
  /\ PageRunning(k)
  /\ listing.pages[k].pc = "append"
  /\ listing' = [listing EXCEPT !.error = "append",
                                !.pages[k].pc = IF FatalOnError(variant) THEN @ ELSE "done",
                                !.wg = IF FatalOnError(variant) THEN @ ELSE PageWgAfterDone]
  /\ mainPc' = IF FatalOnError(variant) THEN "exited" ELSE mainPc
  /\ exit' = IF FatalOnError(variant) THEN "fatal" ELSE exit
  /\ UNCHANGED <<call, variant, html, fullURLList, server, idx, wg, tasks, fs, fs0, totalDownloadCounter>>

\* main.go, part_000: if fileExists(localLocation) { ... }, else main
\* ends; p2 logs that the file is missing and goes on.
MainCheckListing ==
  /\ mainPc = "check"
  /\ mainPc' = IF FatalOnError(variant) /\ listing.file.kind # "file" THEN "exited" ELSE "readfile"
  /\ exit' = IF FatalOnError(variant) /\ listing.file.kind # "file" THEN "normal" ELSE exit
  /\ UNCHANGED <<call, variant, html, fullURLList, server, idx, wg, tasks, fs, fs0, listing, totalDownloadCounter>>

\* readAFileAsString(localLocation)
MainReadFile ==
  /\ mainPc = "readfile"
  /\ listing.file.kind = "file"
  /\ html' = ContentDoc(listing.file.content)
  /\ mainPc' = "read"
  /\ UNCHANGED <<call, variant, fullURLList, server, exit, idx, wg, tasks, fs, fs0, listing, totalDownloadCounter>>

\* readAFileAsString: os.ReadFile fails (always when there is no regular
\* file). main.go and part_000 end with log.Fatalln; p2 logs and returns
\* the empty string.
MainReadFileFails ==
  /\ mainPc = "readfile"
  /\ listing' = [listing EXCEPT !.error = "read"]
  /\ html' = <<>>
  /\ mainPc' = IF FatalOnError(variant) THEN "exited" ELSE "read"
  /\ exit' = IF FatalOnError(variant) THEN "fatal" ELSE exit
  /\ UNCHANGED <<call, variant, fullURLList, server, idx, wg, tasks, fs, fs0, totalDownloadCounter>>

NextRun ==
  \/ ListingStart
  \/ PageLaunch
  \/ PageCall
  \/ PageCallReturns
  \/ PagesLoopEnds
  \/ PageWaitReturns
  \/ \E k \in 1..MaxPages :
       \/ PageGet(k)
       \/ PageGetFails(k)
       \/ PageBodyFails(k)
       \/ PageAppend(k)
       \/ PageAppendFails(k)
  \/ MainCheckListing
  \/ MainReadFile
  \/ MainReadFileFails
  \/ Next

SpecRun == InitRun /\ [][NextRun]_vars

(***************************************************************************)
(* Claims about the download                                               *)
(***************************************************************************)
Links == DOMAIN fullURLList

\* C1: a download step that begins with a regular file at the derived path
\* issues no HTTP request and does not create, truncate or write the file.
C1_ExistingFileSkipped ==
  \A i \in Links : tasks[i].present => tasks[i].gets = 0 /\ ~tasks[i].wrote

\* The program has ended after a download step, in a copy that tests the
\* file inside downloadPDF, found its file present and finished.
C1_Witness ==
  /\ mainPc = "exited"
  /\ variant \in {"main", "p000"}
  /\ \E i \in Links : tasks[i].present /\ tasks[i].pc = "done"

IsPdfType(ct) == \E k \in DOMAIN ct : ct[k] = "application/pdf"

\* The GET for link i was answered with a status other than 200, or with a
\* Content-Type that is not PDF.
BadStatus(i) == tasks[i].gets > 0 /\ ~server[i].err /\ server[i].status # 200
BadType(i) == tasks[i].gets > 0 /\ ~server[i].err /\ ~IsPdfType(server[i].ct)

\* C2 as stated: in every variant, a response with a status other than 200
\* or a Content-Type that is not PDF creates no file.
C2_AsStated ==
  \A i \in Links : (BadStatus(i) \/ BadType(i)) => ~tasks[i].wrote

\* C2 amended: in every variant a response with a status other than 200
\* creates no file; in part_000 and the second and third programs of
\* part_001 a response whose Content-Type is not PDF creates none either
\* (main.go does not look at the Content-Type).
C2_StatusAndType ==
  \A i \in Links :
    /\ BadStatus(i) => ~tasks[i].wrote
    /\ (variant # "main" /\ BadType(i)) => ~tasks[i].wrote

\* A download of part_000 has ended on a 200 response that is HTML, and
\* one on a 404.
C2_Witness ==
  /\ variant = "p000"
  /\ \E i \in Links : tasks[i].pc = "done" /\ BadType(i) /\ server[i].status = 200
  /\ \E i \in Links : tasks[i].pc = "done" /\ BadStatus(i)

GoodServer(i) ==
  /\ ~server[i].err
  /\ server[i].status = 200
  /\ server[i].ct = pdfType
  /\ server[i].body = "ok"

IntendedPathOf(i) == LinkInfo[variant][fullURLList[i]].intendedPath

\* C3: when the run has ended, every extracted link whose file was not on
\* disk and whose server answers 200 with a non-empty PDF body has a file
\* at the path derived from it, whatever other links the listing holds.
C3_AsStated ==
  mainPc = "exited" =>
    \A i \in Links :
      (GoodServer(i) /\ fs0[IntendedPathOf(i)].kind = "absent") =>
        fs[IntendedPathOf(i)].kind = "file"

\* C4: a failure concerning one URL is terminal to that URL only: when the
\* run has ended, every URL of the list has been validated and attempted.
C4_AsStated == mainPc = "exited" => idx > Len(fullURLList)

\* C5: a copy that launches parallel tasks never exits while a launched
\* task is still running.
C5_AsStated ==
  (mainPc = "exited" /\ Concurrent(variant)) =>
    \A i \in Links : tasks[i].pc \in {"idle", "done"}

\* C6: two different links of the list never derive the same local path.
C6_AsStated ==
  \A i, j \in Links :
    (fullURLList[i] # fullURLList[j] /\ ValidOf(i) /\ ValidOf(j)) => PathOf(i) # PathOf(j)

\* Reading the body of the response to the GET for link i fails.
BodyReadFails(i) ==
  /\ tasks[i].gets > 0
  /\ tasks[i].pc # "await"
  /\ ~server[i].err
  /\ server[i].status = 200
  /\ IsPdfType(server[i].ct)
  /\ server[i].body = "fail"

\* C7: in the second and third programs of part_001 the file is created
\* only after the whole body has been read: a download whose body read
\* fails never creates or writes the file, and the path, when no other
\* link of the run leads to it, stays without a file.
C7_BufferedBeforeCreate ==
  ChecksInMain(variant) =>
    \A i \in Links :
      /\ tasks[i].wrote => server[i].body = "ok"
      /\ BodyReadFails(i) =>
           /\ ~tasks[i].wrote
           /\ (\A j \in Links : j # i /\ ValidOf(j) => PathOf(j) # PathOf(i)) =>
                fs[PathOf(i)].kind # "file"

\* A download of the second program has ended on a body that broke off.
C7_Witness ==
  /\ variant = "p2"
  /\ \E i \in Links : BodyReadFails(i) /\ tasks[i].pc = "done"

\* The GETs issued so far for the URL of link i, over every place of the
\* list that holds the same link.
RequestsFor(i) ==
  LET same == { j \in Links : fullURLList[j] = fullURLList[i] }
      RECURSIVE Sum(_)
      Sum(S) == IF S = {} THEN 0
                ELSE LET j == CHOOSE x \in S : TRUE
                     IN  tasks[j].gets + Sum(S \ {j})
  IN  Sum(same)

\* C11: there is no retry: within one run at most one HTTP GET is issued
\* for any given PDF URL, also when the first attempt for it fails.
C11_AsStated ==
  \A i \in Links : ValidOf(i) => RequestsFor(i) <= 1

\* A valid URL has a regular file at its derived path when the run starts.
FileAtStart(i) == fs0[PathOf(i)].kind = "file"

\* C12: a later run issues a download request for exactly the valid URLs
\* whose derived file is absent: when the run has ended, a valid URL has
\* been requested if and only if its file was not there at the start.
C12_AsStated ==
  mainPc = "exited" =>
    \A i \in Links : ValidOf(i) => (RequestsFor(i) > 0 <=> ~FileAtStart(i))

(***************************************************************************)
(* The launching thread alone: a schedule in which no goroutine gets to    *)
(* run before main has gone through its list. time.Sleep before a launch   *)
(* is a step of main and stops no goroutine.                               *)
(***************************************************************************)
LaunchNext ==
  \/ ReadListing
  \/ MainInvalidReturn
  \/ MainInvalidContinue
  \/ MainSkipExisting
  \/ MainSkipShort
  \/ MainLaunch
  \/ MainLoopEnds
  \/ MainWaitReturns

SpecLaunchOnly == Init /\ [][LaunchNext]_vars

\* main.go or part_000 goes through a list of valid URLs, none of which
\* had anything at its derived path when the run started.
AllValidNoFile ==
  /\ variant \in {"main", "p000"}
  /\ mainPc \in {"loop", "wait"}
  /\ \A i \in Links : ValidOf(i) /\ fs0[PathOf(i)].kind = "absent"

\* Every link of the list has a task that was launched and has not
\* finished.
InFlight == { i \in Links : tasks[i].pc \notin {"idle", "done"} }

AllInFlight == InFlight = Links /\ wg = Len(fullURLList)

\* C13: the number of download tasks in flight is not capped: while main.go
\* or part_000 goes through a list of N valid URLs with no file on disk and
\* no task has finished, every link it has passed has a task in flight, and
\* the launch of the next one is enabled however many are in flight; at
\* the barrier all N are in flight.
C13_Uncapped ==
  AllValidNoFile =>
    /\ InFlight = { i \in Links : i < idx }
    /\ wg = idx - 1
    /\ idx <= Len(fullURLList) => ENABLED MainLaunch
    /\ mainPc = "wait" => AllInFlight

\* part_000 has launched one task for each link of a list of full length,
\* and none has finished.
C13_Witness ==
  /\ variant = "p000"
  /\ Len(fullURLList) = MaxAnchors
  /\ \A i \in Links : ValidOf(i) /\ fs0[PathOf(i)].kind = "absent"
  /\ mainPc = "wait"
  /\ AllInFlight

\* The order C15 gives to the steps taken for one URL.
StepOrder == <<"validate", "exists", "get", "status", "create">>

IsPrefix(s, t) == Len(s) <= Len(t) /\ \A k \in DOMAIN s : s[k] = t[k]

\* C15: for each URL the steps happen in the order validation, existence
\* check, GET, status check, file creation; no GET is issued for a URL that
\* failed validation, and no file is created before a response with status
\* 200 has been received for the URL.
C15_StepOrder ==
  \A i \in Links :
    /\ IsPrefix(tasks[i].steps, StepOrder)
    /\ tasks[i].gets > 0 => LinkInfo[variant][fullURLList[i]].valid
    /\ tasks[i].wrote =>
         tasks[i].gets > 0 /\ ~server[i].err /\ server[i].status = 200

\* A download of part_000 has gone through all five steps, and in the same
\* run a URL failed validation.
C15_Witness ==
  /\ variant = "p000"
  /\ \E i \in Links : tasks[i].steps = StepOrder /\ tasks[i].wrote
  /\ \E i \in Links : tasks[i].steps = <<"validate">> /\ ~LinkInfo[variant][fullURLList[i]].valid

\* C16: in part_000 and the second and third programs of part_001 every
\* URL handed to validation and download starts with the base domain: a
\* link without the domain gets it prepended, a link that starts with it is
\* used unchanged.
C16_AsStated ==
  variant \in {"p000", "p2", "p3"} =>
    \A i \in Links :
      /\ HasPrefix(UrlOf(i), domainURL)
      /\ UrlOf(i) = IntendedURL(fullURLList[i])

(***************************************************************************)
(* Claims about the listing phase and the whole run                        *)
(***************************************************************************)
Pages == DOMAIN listing.pages

NoDownloadBegun ==
  /\ fullURLList = <<>>
  /\ \A i \in DOMAIN tasks : tasks[i].gets = 0 /\ ~tasks[i].wrote
  /\ fs = fs0

\* C14: in main.go an error while a listing page is fetched or the listing
\* file is opened, written or read ends the whole process: no later page is
\* fetched, no PDF request has been issued and no file of the output
\* directory has been written.
C14_FatalInListing ==
  (variant = "main" /\ listing.error # "none") =>
    /\ mainPc = "exited" /\ exit = "fatal"
    /\ \A k \in Pages : k > listing.page => listing.pages[k].pc = "idle" /\ listing.pages[k].gets = 0
    /\ NoDownloadBegun

\* main.go has appended its first page, and the GET for the second failed.
C14_Witness ==
  /\ variant = "main"
  /\ listing.page = 2
  /\ listing.pages[1].written
  /\ listing.pages[2].got = "err"
  /\ exit = "fatal"

PagesInFlight == { k \in Pages : listing.pages[k].pc \in {"get", "append"} }

\* C17: each wait-group counter equals the number of launched and
\* unfinished tasks and is never negative; a barrier opens exactly when all
\* launched tasks have finished, and main passes it only then.
C17_WaitGroups ==
  /\ wg = (IF variant \in {"main", "p000", "p2"} THEN Cardinality(InFlight) ELSE 0)
  /\ listing.wg = (IF variant \in {"p000", "p2"} THEN Cardinality(PagesInFlight) ELSE 0)
  /\ wg >= 0 /\ listing.wg >= 0
  /\ mainPc = "wait" => (ENABLED MainWaitReturns <=> InFlight = {})
  /\ mainPc = "pagewait" => (ENABLED PageWaitReturns <=> PagesInFlight = {})
  /\ (variant \in {"p000", "p2"} /\ mainPc \in {"check", "readfile", "read", "loop", "wait"}) =>
       PagesInFlight = {}
  /\ (variant \in {"main", "p000", "p2"} /\ exit = "normal") => InFlight = {}

\* The second program has passed both barriers and ended; one of its
\* downloads returned early on an error, one page fetch was done.
C17_Witness ==
  /\ variant = "p2"
  /\ exit = "normal"
  /\ \E k \in Pages : listing.pages[k].pc = "done"
  /\ \E i \in Links : tasks[i].pc = "done" /\ tasks[i].gets > 0 /\ ~tasks[i].wrote

\* C18: in the second and third programs of part_001, when the HTTP
\* request for a listing page fails, getDataFromURL goes on to its end
\* without crashing the program.
C18_AsStated ==
  variant \in {"p2", "p3"} =>
    \A k \in Pages : listing.pages[k].got = "err" => exit \notin {"panic", "fatal"}

\* C19: in part_000 and the second program of part_001, when the listing
\* file is a regular file at start-up no listing page is requested, the
\* file is left as it is and the links are taken from it; pages are
\* requested only when it is absent.
C19_ListingCache ==
  variant \in {"p000", "p2"} =>
    /\ listing.kind0 = "file" =>
         /\ \A k \in Pages : listing.pages[k].gets = 0 /\ listing.pages[k].pc = "idle"
         /\ listing.file = [kind |-> "file", content |-> <<OldChunk>>]
         /\ (listing.error = "none" /\ mainPc \notin {"start", "check", "readfile"}) =>
              html = listing.old
    /\ (\E k \in Pages : listing.pages[k].gets > 0) => listing.kind0 # "file"

\* part_000 found its listing file, fetched no page and downloaded a link
\* of the file.
C19_Witness ==
  /\ variant = "p000"
  /\ listing.kind0 = "file"
  /\ exit = "normal"
  /\ \E i \in Links : tasks[i].wrote

\* What the listing file held at start-up, and what has been put after it.
OldContent == IF listing.kind0 = "file" THEN <<OldChunk>> ELSE <<>>

Appended == SubSeq(listing.file.content, Len(OldContent) + 1, Len(listing.file.content))

\* C20: writing a listing page only appends: the listing file is what it
\* held before, unchanged, followed by one block per page written, the
\* body and a newline, each exactly once, in page order when the writes
\* are sequential.
C20_AppendOnly ==
  variant \in {"main", "p000", "p2"} =>
    /\ IsPrefix(OldContent, listing.file.content)
    /\ { Appended[j].page : j \in DOMAIN Appended } = { k \in Pages : listing.pages[k].written }
    /\ \A j, l \in DOMAIN Appended : Appended[j].page = Appended[l].page => j = l
    /\ \A j \in DOMAIN Appended :
         /\ Appended[j].nl
         /\ Appended[j].whole <=> listing.pages[Appended[j].page].got = "ok"
         /\ variant \in {"main", "p000"} => Appended[j].whole
         /\ variant = "main" => Appended[j].page = j

\* main.go has appended every page to a listing file that held something.
C20_Witness ==
  /\ variant = "main"
  /\ listing.kind0 = "file"
  /\ Len(listing.file.content) = 1 + MaxPages

(***************************************************************************)
(* The second program of part_001 near its limit of downloads              *)
(***************************************************************************)
\* The second program far into a long listing: the downloads of the links
\* gone through have been launched and are over, the loop has the last
\* links of the list before it, and the count stands just below the limit.
InitNearLimit ==
  /\ call = NoCall
  /\ variant = "p2"
  /\ html \in SeqUpTo({ Anchor(h) : h \in LinkPool }, MaxAnchors)
  /\ fullURLList = <<>>
  /\ server = <<>>
  /\ mainPc = "read"
  /\ exit = ""
  /\ idx = 0
  /\ wg = 0
  /\ tasks = <<>>
  /\ fs \in StartFs(variant, html)
  /\ fs0 = fs
  /\ listing = ListingOver(html)
  /\ totalDownloadCounter \in (DownloadLimit - MaxAnchors)..(DownloadLimit - 1)

\* The steps of the second program.
NextLimit ==
  \/ ReadListing
  \/ MainInvalidContinue
  \/ MainSkipExisting
  \/ MainSkipShort
  \/ MainLaunch
  \/ MainLoopEnds
  \/ MainWaitReturns
  \/ \E i \in 1..MaxAnchors :
       \/ TaskGet(i)
       \/ TaskRejected(i)
       \/ TaskAccepted(i)
       \/ TaskCreateFails(i)
       \/ TaskCreate(i)
       \/ TaskCopy(i)

SpecLimit == InitNearLimit /\ [][NextLimit]_vars

\* A download task is launched in this step.
Launches == \E i \in DOMAIN tasks : tasks[i].pc = "idle" /\ tasks'[i].pc # "idle"

\* C21: in the second program of part_001 a launch happens only below the
\* limit of 8000 and raises the count by one; the count never passes the
\* limit, and with the launch that brings it to the limit the process
\* ends and launches nothing more.
C21_LaunchLimit ==
  [][ /\ totalDownloadCounter <= DownloadLimit
      /\ totalDownloadCounter' <= DownloadLimit
      /\ Launches =>
           /\ totalDownloadCounter < DownloadLimit
           /\ totalDownloadCounter' = totalDownloadCounter + 1
           /\ totalDownloadCounter' = DownloadLimit => mainPc' = "exited" /\ exit' = "fatal"
      /\ totalDownloadCounter = DownloadLimit => ~Launches /\ mainPc = "exited"
    ]_vars

\* The limit was reached with links of the list left and a download in
\* flight.
C21_Witness ==
  /\ variant = "p2"
  /\ totalDownloadCounter = DownloadLimit
  /\ exit = "fatal"
  /\ idx < Len(fullURLList)
  /\ \E i \in DOMAIN tasks : tasks[i].pc \notin {"idle", "done"}

\* The answer to the GET for link i: 200, a PDF Content-Type, no byte of
\* body.
EmptyPdf(i) ==
  /\ ~server[i].err
  /\ server[i].status = 200
  /\ IsPdfType(server[i].ct)
  /\ server[i].body = "empty"

\* C22: in the second and third programs of part_001 a download whose
\* response is 200 with a PDF Content-Type and an empty body never comes to
\* create its file, leaves nothing of its own at the derived path, and
\* downloadPDF returns false.
C22_EmptyBodyNoFile ==
  variant \in {"p2", "p3"} =>
    \A i \in Links :
      (EmptyPdf(i) /\ tasks[i].gets > 0) =>
        /\ tasks[i].pc \notin {"create", "copy"}
        /\ ~tasks[i].wrote
        /\ fs[PathOf(i)].src # i
        /\ tasks[i].pc = "done" => tasks[i].ret = "false"

\* The third program got an empty PDF for a link without a file: it
\* returned false and there is still no file.
C22_Witness ==
  /\ variant = "p3"
  /\ \E i \in Links :
       /\ EmptyPdf(i)
       /\ tasks[i].pc = "done"
       /\ tasks[i].ret = "false"
       /\ fs[PathOf(i)].kind = "absent"

\* The place of link h among the distinct links of the listing, in the
\* order of their first appearance.
FirstSeenRank(links, h) ==
  Cardinality({ g \in Range(links) : FirstIndex(links, g) <= FirstIndex(links, h) })

\* main of part_000 is through its loop over the links.
LoopDone == variant = "p000" /\ (mainPc = "wait" \/ exit = "normal")

\* The k-th link from the end is the k-th launched, for every link.
AllLaunchedReversed(links) ==
  \A h \in Range(links) :
    \E i \in Links :
      /\ fullURLList[i] = h
      /\ tasks[i].order = Cardinality(Range(links)) + 1 - FirstSeenRank(links, h)

\* C23 as stated: in part_000 the downloads are launched in exactly the
\* reverse of the first-seen order of the distinct links: the link that
\* first appears last is launched first, the first link is launched last.
C23_AsStated == LoopDone => AllLaunchedReversed(parseHTML(html))

LaunchedReversed(links) ==
  /\ \A i \in Links : tasks[i].order > 0 => ValidOf(i) /\ fullURLList[i] \in Range(links)
  /\ \A i, j \in Links :
       (tasks[i].order > 0 /\ tasks[j].order > 0) =>
         /\ fullURLList[i] = fullURLList[j] => i = j
         /\ tasks[i].order < tasks[j].order <=>
              FirstSeenRank(links, fullURLList[i]) > FirstSeenRank(links, fullURLList[j])
  /\ { tasks[i].order : i \in { j \in Links : tasks[j].order > 0 } } = 1..Launched
  /\ LoopDone =>
       \A h \in Range(links) :
         LinkInfo[variant][h].valid => \E i \in Links : fullURLList[i] = h /\ tasks[i].order > 0

\* C23: in part_000 a download is launched for each distinct link whose
\* URL is valid, once, and for no other; of two launched links the one
\* that first appears later in the listing is launched earlier.
C23_ReverseOfLaunched == variant = "p000" => LaunchedReversed(parseHTML(html))

\* part_000 has launched the downloads of two links, the second of the
\* listing first.
C23_Witness ==
  /\ LoopDone
  /\ Len(html) = 2
  /\ \E i, j \in Links :
       /\ fullURLList[i] = html[2].href /\ tasks[i].order = 1
       /\ fullURLList[j] = html[1].href /\ tasks[j].order = 2

(***************************************************************************)
(* main.go and part_000 run again and again over the same directory        *)
(***************************************************************************)
InitRuns == Init /\ variant \in {"main", "p000"}

\* The program is started again after it has ended: the output directory
\* is as the run before left it, the listing is the same.
Restart ==
  /\ mainPc = "exited"
  /\ fs' = [p \in DOMAIN fs |-> [fs[p] EXCEPT !.src = 0]]
  /\ fs0' = fs'
  /\ fullURLList' = <<>>
  /\ server' = <<>>
  /\ tasks' = <<>>
  /\ mainPc' = "read"
  /\ exit' = ""
  /\ idx' = 0
  /\ wg' = 0
  /\ UNCHANGED <<call, variant, html, listing, totalDownloadCounter>>

\* The steps of main.go and part_000, and the restart.
NextRuns ==
  \/ ReadListing
  \/ MainInvalidReturn
  \/ MainInvalidContinue
  \/ MainLaunch
  \/ MainLoopEnds
  \/ MainWaitReturns
  \/ \E i \in 1..MaxAnchors :
       \/ TaskSkipExisting(i)
       \/ TaskStart(i)
       \/ TaskGet(i)
       \/ TaskRejected(i)
       \/ TaskAccepted(i)
       \/ TaskCreateFails(i)
       \/ TaskCreate(i)
       \/ TaskCopy(i)
  \/ Restart

SpecRuns == InitRuns /\ [][NextRuns]_vars

\* The copy of the body of link i broke off after the file was created.
CopyBrokeOff(i) == tasks[i].pc = "done" /\ tasks[i].wrote /\ server[i].body = "fail"

\* An earlier run left a truncated file at the path of link i.
TruncatedBefore(i) == ValidOf(i) /\ fs0[PathOf(i)].data = "partial"

\* C24: in main.go and part_000 a copy that breaks off after os.Create
\* makes downloadPDF return false and leaves a regular file at the derived
\* path, truncated as long as no other task of the run writes the path;
\* a later run that finds the truncated file issues no request for the
\* URL and leaves the file as it is.
C24_TruncatedFileStays ==
  variant \in {"main", "p000"} =>
    \A i \in Links :
      /\ CopyBrokeOff(i) =>
           /\ tasks[i].ret = "false"
           /\ fs[PathOf(i)].kind = "file"
           /\ fs[PathOf(i)].src = i => fs[PathOf(i)].data = "partial"
      /\ TruncatedBefore(i) =>
           /\ tasks[i].gets = 0 /\ ~tasks[i].wrote
           /\ fs[PathOf(i)] = fs0[PathOf(i)]

\* A later run has found the truncated file of an earlier run, skipped its
\* link and ended.
C24_Witness ==
  /\ variant = "p000"
  /\ exit = "normal"
  /\ \E i \in Links :
       /\ TruncatedBefore(i)
       /\ tasks[i].pc = "done"
       /\ tasks[i].steps = <<"validate", "exists">>

\* C25 as stated: in the concurrent copies two tasks of one run whose links
\* derive the same path never both pass the existence check and both create
\* the file.
C25_AsStated ==
  variant \in {"main", "p000", "p2"} =>
    \A i, j \in Links :
      (i # j /\ ValidOf(i) /\ ValidOf(j) /\ PathOf(i) = PathOf(j)) =>
        ~(tasks[i].wrote /\ tasks[j].wrote)

(***************************************************************************)
(* The program on links made to leave the output directory                 *)
(***************************************************************************)
\* The listing holds such links, and the link with a TAB in it.
PathLinks == DotLinks \cup { <<"/","c",TAB,".","p","d","f">> }

InitPaths ==
  /\ call = NoCall
  /\ variant \in Variants
  /\ html \in SeqUpTo({ Anchor(h) : h \in PathLinks }, MaxAnchors)
  /\ fullURLList = <<>>
  /\ server = <<>>
  /\ mainPc = "read"
  /\ exit = ""
  /\ idx = 0
  /\ wg = 0
  /\ tasks = <<>>
  /\ fs \in StartFs(variant, html)
  /\ fs0 = fs
  /\ listing = ListingOver(html)
  /\ totalDownloadCounter = 0

SpecPaths == InitPaths /\ [][Next]_vars

\* Path p names an entry of the output directory itself: outputDir and a
\* name that is not empty, not "." or ".." and holds no separator.
DirectChild(p) ==
  /\ HasPrefix(p, outputDir)
  /\ Len(p) > Len(outputDir)
  /\ CountChar(SubSeq(p, Len(outputDir) + 1, Len(p)), "/") = 0
  /\ SubSeq(p, Len(outputDir) + 1, Len(p)) \notin { <<".">>, <<".", ".">> }

\* C26: every file a download creates or writes is a direct child of the
\* output directory; nothing changes at any other path.
C26_DirectChild ==
  /\ \A i \in Links : tasks[i].wrote => DirectChild(PathOf(i))
  /\ \A p \in DOMAIN fs : fs[p] # fs0[p] => DirectChild(p)

\* part_000 was given a link whose last segment is "..": the path it
\* derived is the working directory, os.Create failed on it and no file
\* was created.
C26_Witness ==
  /\ variant = "p000"
  /\ \E i \in Links :
       /\ fullURLList[i] = <<"/",".",".","?",".","p","d","f">>
       /\ PathOf(i) = <<".">>
       /\ tasks[i].pc = "done"
       /\ tasks[i].steps = <<"validate", "exists", "get", "status", "create">>
       /\ ~tasks[i].wrote

\* C27 as stated, its safety part: a run that ends without a fatal error
\* or a crash ends with every launched task over and signalled and both
\* wait-group counters at zero.
C27_AsStated ==
  (mainPc = "exited" /\ exit \notin {"fatal", "panic"}) =>
    /\ wg = 0 /\ listing.wg = 0
    /\ \A i \in DOMAIN tasks : tasks[i].pc \in {"idle", "done"}
    /\ \A k \in DOMAIN listing.pages : listing.pages[k].pc \in {"idle", "done"}

====
